---- MODULE Spec2Model ----
(***************************************************************************)
(* Tic-tac-toe: the board model and the alpha-beta minimax engine of       *)
(* script.js, and the page that drives them (drawBoard, the click          *)
(* listeners, the engine's timer and the reset button).                    *)
(*                                                                         *)
(* A board is a tuple of three rows, each a tuple of three marks.  The     *)
(* source indexes rows and columns from 0; a TLA+ tuple is indexed from 1, *)
(* so board[i][j] of the source is board[i + 1][j + 1] here (Cell).        *)
(***************************************************************************)
EXTENDS Integers, Sequences, FiniteSets, TLC

\* script.js:3-5
X == "X"
O == "O"
EMPTY == ""

\* The null that winner returns when no line is complete (script.js:101).
NULL == "null"

\* An action is a pair <<row, column>>.  NoAction is the null that minimax and
\* the search return in place of an action (script.js:123,131,163); Undefined
\* is the value of `let bestAction;` (script.js:135,167) before its first
\* assignment.
NoAction == <<>>
Undefined == <<"undefined">>

\* Infinity of script.js:129,134: only its order against the utilities -1, 0, 1
\* is ever used (<, >, <=, Math.min, Math.max), so it is modelled as an integer
\* above every utility, and -Infinity as its negation.
Infinity == 2
NegInfinity == -Infinity

\* acceptableValues of result (script.js:54)
acceptableValues == <<0, 1, 2>>

Includes(seq, v) == \E k \in 1..Len(seq) : seq[k] = v

Min(a, b) == IF a <= b THEN a ELSE b
Max(a, b) == IF a >= b THEN a ELSE b

\* board[i][j] of the source
Cell(board, i, j) == board[i + 1][j + 1]

\* initialState(): script.js:16-22
initialState ==
    << <<EMPTY, EMPTY, EMPTY>>,
       <<EMPTY, EMPTY, EMPTY>>,
       <<EMPTY, EMPTY, EMPTY>> >>

\* The cells in the order the nested loops of player and actions visit them
\* (i outer, j inner).
RowMajor ==
    << <<0, 0>>, <<0, 1>>, <<0, 2>>,
       <<1, 0>>, <<1, 1>>, <<1, 2>>,
       <<2, 0>>, <<2, 1>>, <<2, 2>> >>

\* The count the loop of player keeps: the cells that are not EMPTY.
occupiedCount(board) ==
    Cardinality({k \in 1..Len(RowMajor) :
                    Cell(board, RowMajor[k][1], RowMajor[k][2]) # EMPTY})

\* player with the parity of the count taken the other way round
playerOddFirst(board) == IF occupiedCount(board) % 2 = 1 THEN X ELSE O

\* player(board): script.js:25-36
player(board) == IF occupiedCount(board) % 2 = 0 THEN X ELSE O

\* The cells with the column as the outer loop and the row as the inner one.
ColumnMajor == [k \in 1..Len(RowMajor) |-> <<RowMajor[k][2], RowMajor[k][1]>>]

\* actions with the two loops exchanged
actionsByColumn(board) ==
    SelectSeq(ColumnMajor, LAMBDA m : Cell(board, m[1], m[2]) = EMPTY)

\* actions(board): script.js:39-49
actions(board) ==
    SelectSeq(RowMajor, LAMBDA m : Cell(board, m[1], m[2]) = EMPTY)

\* The board with cell (x, y) set to mark: resultBoard[x][y] = ... on a copy.
SetCell(board, x, y, mark) ==
    [board EXCEPT ![x + 1] = [board[x + 1] EXCEPT ![y + 1] = mark]]

\* result without the test of script.js:62
resultUnguarded(board, action) ==
    IF Len(action) # 2 \/ ~Includes(acceptableValues, action[1])
                       \/ ~Includes(acceptableValues, action[2])
    THEN [threw |-> TRUE, board |-> board, resultBoard |-> board]
    ELSE [threw |-> FALSE, board |-> board,
          resultBoard |-> SetCell(board, action[1], action[2], player(board))]

\* result writing into the board it was given
resultInPlace(board, action) ==
    IF Len(action) # 2 \/ ~Includes(acceptableValues, action[1])
                       \/ ~Includes(acceptableValues, action[2])
    THEN [threw |-> TRUE, board |-> board, resultBoard |-> board]
    ELSE IF Cell(board, action[1], action[2]) # EMPTY
    THEN [threw |-> TRUE, board |-> board, resultBoard |-> board]
    ELSE [threw |-> FALSE,
          board |-> SetCell(board, action[1], action[2], player(board)),
          resultBoard |-> SetCell(board, action[1], action[2], player(board))]

\* result(board, action): script.js:52-70.  The call either throws
\* (threw = TRUE) or returns resultBoard; `board` is the caller's board object
\* as the call leaves it.  Destructuring null or undefined (script.js:53)
\* throws as well.  The clone of script.js:67 copies every row, so the write of
\* script.js:68 lands on the copy alone.
result(board, action) ==
    IF Len(action) # 2
    THEN [threw |-> TRUE, board |-> board, resultBoard |-> board]
    ELSE LET x == action[1]
             y == action[2]
         IN  IF ~Includes(acceptableValues, x) \/ ~Includes(acceptableValues, y)
             THEN [threw |-> TRUE, board |-> board, resultBoard |-> board]
             ELSE IF Cell(board, x, y) # EMPTY
             THEN [threw |-> TRUE, board |-> board, resultBoard |-> board]
             ELSE [threw |-> FALSE, board |-> board,
                   resultBoard |-> SetCell(board, x, y, player(board))]

\* winningConditions of winner: script.js:74-83
winningConditions ==
    << << <<0, 0>>, <<0, 1>>, <<0, 2>> >>,
       << <<1, 0>>, <<1, 1>>, <<1, 2>> >>,
       << <<2, 0>>, <<2, 1>>, <<2, 2>> >>,
       << <<0, 0>>, <<1, 0>>, <<2, 0>> >>,
       << <<0, 1>>, <<1, 1>>, <<2, 1>> >>,
       << <<0, 2>>, <<1, 2>>, <<2, 2>> >>,
       << <<0, 0>>, <<1, 1>>, <<2, 2>> >>,
       << <<0, 2>>, <<1, 1>>, <<2, 0>> >> >>

\* cells of one condition: script.js:86-89
conditionCells(board, condition) ==
    [i \in 1..Len(condition) |-> Cell(board, condition[i][1], condition[i][2])]

\* the test of script.js:91
conditionHolds(board, condition) ==
    LET cells == conditionCells(board, condition)
    IN  \A i \in 1..Len(cells) : cells[i] # EMPTY /\ cells[i] = cells[1]

\* The loop from the k-th condition on that does not return at the first
\* condition that holds but goes on to the last.
RECURSIVE lastFrom(_, _)
lastFrom(board, k) ==
    IF k > Len(winningConditions) THEN 0
    ELSE IF lastFrom(board, k + 1) # 0 THEN lastFrom(board, k + 1)
    ELSE IF conditionHolds(board, winningConditions[k]) THEN k
    ELSE 0

\* The loop of script.js:85 from the k-th condition on: the index of the first
\* condition that holds, 0 when none does.
RECURSIVE firstFrom(_, _)
firstFrom(board, k) ==
    IF k > Len(winningConditions) THEN 0
    ELSE IF conditionHolds(board, winningConditions[k]) THEN k
    ELSE firstFrom(board, k + 1)

firstCondition(board) == firstFrom(board, 1)

\* winner(board): script.js:73-102 (the mark returned)
winner(board) ==
    LET k == firstCondition(board)
    IN  IF k = 0 THEN NULL
        ELSE conditionCells(board, winningConditions[k])[1]

\* The cells of the page winner(board) highlights, script.js:92-97: those of
\* the first condition that holds, whichever board the call is about.
conditionCellsAt[k \in 0..Len(winningConditions)] ==
    IF k = 0 THEN {}
    ELSE {winningConditions[k][i] : i \in 1..Len(winningConditions[k])}

highlights(board) == conditionCellsAt[firstCondition(board)]

\* terminal(board): script.js:105-107
terminal(board) == winner(board) # NULL \/ Len(actions(board)) = 0

\* utility with the winners exchanged
utilityExchanged(board) ==
    IF winner(board) = X THEN -1 ELSE IF winner(board) = O THEN 1 ELSE 0

\* utility without the branch of script.js:114
utilityNoLoss(board) == IF winner(board) = X THEN 1 ELSE 0

\* utility(board): script.js:110-119
utility(board) ==
    LET winnerMark == winner(board)
    IN  IF winnerMark = X THEN 1
        ELSE IF winnerMark = O THEN -1
        ELSE 0

\* The grids: every way to fill the nine cells.
Marks == {X, O, EMPTY}
Boards == [1..3 -> [1..3 -> Marks]]

\* The values alpha and beta take.
Window == NegInfinity..Infinity

\* The cells, the lists of actions and the positions in them, and the values
\* an action variable takes.
Cells == {RowMajor[k] : k \in 1..Len(RowMajor)}
Lists == Seq(Cells)
Indices == 1..Len(RowMajor)
Choices == Cells \cup {NoAction, Undefined}

\* What an action variable holds: null, undefined or a move.
kindOf(action) ==
    IF action = NoAction THEN "null"
    ELSE IF action = Undefined THEN "undefined"
    ELSE "move"

Kinds == {"null", "undefined", "move"}

\* What the calls of a search have done so far:
\*   lit      the cells of the page their winner calls have highlighted
\*   returns  the [value, action] pairs the calls have returned, the action
\*            by its kind
\*   deep     how many calls deep they have nested
Trails == [lit : SUBSET Cells, returns : SUBSET (Window \X Kinds), deep : 0..(Len(RowMajor) + 1)]

NoTrail == [lit |-> {}, returns |-> {}, deep |-> 0]

Join(t, u) ==
    [lit |-> t.lit \cup u.lit, returns |-> t.returns \cup u.returns,
     deep |-> Max(t.deep, u.deep)]

\* What a search call hands back: [value, action] of script.js:131,157 (or
\* 163,189), whether a result call inside it threw instead, the caller's
\* board object as the call leaves it, and the trail of the calls inside it
\* with this call added.
Returned[val \in Window, action \in Choices, board \in Boards, trail \in Trails] ==
    [val |-> val, action |-> action, threw |-> FALSE, board |-> board,
     trail |-> [lit |-> trail.lit,
                returns |-> trail.returns \cup {<<val, kindOf(action)>>},
                deep |-> trail.deep + 1]]

Thrown(board, trail) ==
    [val |-> 0, action |-> Undefined, threw |-> TRUE, board |-> board,
     trail |-> trail]

\* The trail of a call on a terminal board: terminal (script.js:130) and
\* utility (script.js:131) both call winner.
AtEnd(board) == [lit |-> highlights(board), returns |-> {}, deep |-> 0]

\* The records a search call hands back.
Handed == [val : Window, action : Choices, threw : BOOLEAN, board : Boards, trail : Trails]

RECURSIVE minValue(_, _, _), maxValue(_, _, _),
          minLoop(_, _, _, _, _, _, _, _), maxLoop(_, _, _, _, _, _, _, _)

\* The recursive calls of script.js:142 and script.js:174.
call[role \in {"min", "max"}, board \in Boards, alpha \in Window, beta \in Window] ==
    IF role = "min" THEN minValue(board, alpha, beta)
    ELSE maxValue(board, alpha, beta)

\* minVal starts at the largest utility.
minInitLow == Infinity - 1

\* let minVal = Infinity: script.js:134
minInit == Infinity

\* A value as good as the best so far replaces it.
minBetterOrEqual(maxVal, minVal) == maxVal <= minVal

\* The update of script.js:145
minBetter(maxVal, minVal) == maxVal < minVal

\* O takes the first action it tries.
minCutAtOnce(alpha, beta) == TRUE

\* The cut of script.js:152
minCut(alpha, beta) == beta <= alpha

\* script.js:151-154: beta = Math.min(beta, minVal), then the cut or the next
\* action.
minPrune(board, acts, k, alpha, beta, minVal, bestAction, trail) ==
    IF minCut(alpha, Min(beta, minVal))
    THEN Returned[minVal, bestAction, board, trail]
    ELSE minLoop(board, acts, k + 1, alpha, Min(beta, minVal), minVal,
                 bestAction, trail)

\* script.js:142-148: child is what maxValue handed back for the action.
minUpdate[board \in Boards, acts \in Lists, k \in Indices, alpha, beta, minVal \in Window, bestAction \in Choices, trail \in Trails, child \in Handed] ==
    IF child.threw THEN Thrown(board, Join(trail, child.trail))
    ELSE minPrune(board, acts, k, alpha, beta,
                  IF minBetter(child.val, minVal) THEN child.val ELSE minVal,
                  IF minBetter(child.val, minVal) THEN acts[k] ELSE bestAction,
                  Join(trail, child.trail))

\* script.js:139-142: r is what result handed back for the action.
minDescend(acts, k, alpha, beta, minVal, bestAction, trail, r) ==
    IF r.threw THEN Thrown(r.board, trail)
    ELSE minUpdate[r.board, acts, k, alpha, beta, minVal, bestAction, trail,
                   call["max", r.resultBoard, alpha, beta]]

\* The for loop of minValue, script.js:138-155, from the k-th action on.
minLoop(board, acts, k, alpha, beta, minVal, bestAction, trail) ==
    IF k > Len(acts) THEN Returned[minVal, bestAction, board, trail]
    ELSE minDescend(acts, k, alpha, beta, minVal, bestAction, trail,
                    result(board, acts[k]))

\* minValue(board, alpha, beta): script.js:129-158
minValue(board, alpha, beta) ==
    IF terminal(board) THEN Returned[utility(board), NoAction, board, AtEnd(board)]
    ELSE minLoop(board, actions(board), 1, alpha, beta, minInit, Undefined, NoTrail)

\* maxVal starts at the largest utility.
maxInitHigh == Infinity - 1

\* let maxVal = -Infinity: script.js:166
maxInit == NegInfinity

\* A value as good as the best so far replaces it.
maxBetterOrEqual(minVal, maxVal) == minVal >= maxVal

\* The comparison of script.js:177 written the wrong way round
maxBetterReversed(minVal, maxVal) == minVal < maxVal

\* The update of script.js:177
maxBetter(minVal, maxVal) == minVal > maxVal

\* X takes the first action it tries.
maxCutAtOnce(alpha, beta) == TRUE

\* The cut of maxValue taken one step early.
maxCutEarly(alpha, beta) == beta <= alpha + 1

\* The cut of script.js:184
maxCut(alpha, beta) == beta <= alpha

\* script.js:183-186: alpha = Math.max(alpha, maxVal), then the cut or the next
\* action.
maxPrune(board, acts, k, alpha, beta, maxVal, bestAction, trail) ==
    IF maxCut(Max(alpha, maxVal), beta)
    THEN Returned[maxVal, bestAction, board, trail]
    ELSE maxLoop(board, acts, k + 1, Max(alpha, maxVal), beta, maxVal,
                 bestAction, trail)

\* script.js:174-180: child is what minValue handed back for the action.
maxUpdate[board \in Boards, acts \in Lists, k \in Indices, alpha, beta, maxVal \in Window, bestAction \in Choices, trail \in Trails, child \in Handed] ==
    IF child.threw THEN Thrown(board, Join(trail, child.trail))
    ELSE maxPrune(board, acts, k, alpha, beta,
                  IF maxBetter(child.val, maxVal) THEN child.val ELSE maxVal,
                  IF maxBetter(child.val, maxVal) THEN acts[k] ELSE bestAction,
                  Join(trail, child.trail))

\* script.js:171-174: r is what result handed back for the action.
maxDescend(acts, k, alpha, beta, maxVal, bestAction, trail, r) ==
    IF r.threw THEN Thrown(r.board, trail)
    ELSE maxUpdate[r.board, acts, k, alpha, beta, maxVal, bestAction, trail,
                   call["min", r.resultBoard, alpha, beta]]

\* The for loop of maxValue, script.js:170-187, from the k-th action on.
maxLoop(board, acts, k, alpha, beta, maxVal, bestAction, trail) ==
    IF k > Len(acts) THEN Returned[maxVal, bestAction, board, trail]
    ELSE maxDescend(acts, k, alpha, beta, maxVal, bestAction, trail,
                    result(board, acts[k]))

\* maxValue(board, alpha, beta): script.js:161-190
maxValue(board, alpha, beta) ==
    IF terminal(board) THEN Returned[utility(board), NoAction, board, AtEnd(board)]
    ELSE maxLoop(board, actions(board), 1, alpha, beta, maxInit, Undefined, NoTrail)

\* minimax(board), script.js:122-125, with all that the call yields: what the
\* search handed back, the action minimax returns being its action.  On a
\* terminal board no search is called; the terminal call of script.js:123
\* calls winner all the same.
minimaxCall(board) ==
    IF terminal(board)
    THEN [val |-> utility(board), action |-> NoAction, threw |-> FALSE,
          board |-> board, trail |-> AtEnd(board)]
    ELSE call[IF player(board) = X THEN "max" ELSE "min", board,
              NegInfinity, Infinity]

\* minimax(board): script.js:122-125
minimax(board) == minimaxCall(board).action

-----------------------------------------------------------------------------
(***************************************************************************)
(* The state.                                                              *)
(*   game    the board of the game: the argument of the latest drawBoard   *)
(*           call, which is what the page shows                            *)
(*   timers  the boards of the pending setTimeout callbacks of             *)
(*           script.js:228, oldest first (equal delays fire in order)      *)
(*   seats   who moves for X and for O: "engine" (the move minimax         *)
(*           returns) or "any" (any legal move)                            *)
(*   last    the latest call of result: its arguments and what it yielded  *)
(*   marked  the cells of the page that carry the highlight classes of     *)
(*           script.js:96                                                  *)
(***************************************************************************)
VARIABLES game, timers, seats, last, marked

vars == <<game, timers, seats, last, marked>>

\* No call of result yet.
NoCall ==
    [by |-> "none", board |-> initialState, action |-> NoAction, threw |-> FALSE,
     after |-> initialState, resultBoard |-> initialState]

\* The record of a call of result made by `by`: r is what result yielded for
\* the board b and the action.
Outcome(by, b, action, r) ==
    [by |-> by, board |-> b, action |-> action, threw |-> r.threw,
     after |-> r.board, resultBoard |-> r.resultBoard]

\* The record of the call result(b, action) made by `by`.
CallOf(by, b, action) == Outcome(by, b, action, result(b, action))

\* The page: the human plays X by clicking, the engine plays O from a timer.
PageSeats == <<"any", "engine">>

\* The most setTimeout callbacks pending at once.
MaxTimers == 1

\* drawBoard that sets no timer
schedulesNever(b) == FALSE

\* What drawBoard(b) does to the state, script.js:193-248, with `pending` the
\* timers left pending: the page shows b in cells made anew (script.js:195),
\* which the winner calls of script.js:213,217,218 highlight; when b is not
\* terminal and O is to move, script.js:227-230 schedules the engine's move
\* on b.
schedules(b) == ~terminal(b) /\ player(b) = O

drawBoard(b, pending) ==
    /\ game' = b
    /\ marked' = highlights(b)
    /\ timers' = IF schedules(b) THEN Append(pending, b) ELSE pending

\* drawBoard(b) keeps the pending timers within MaxTimers.
Fits(b, pending) == schedules(b) => Len(pending) < MaxTimers

\* drawBoard(result(board, action)) of script.js:229,239: c is the call of
\* result, lit the cells highlighted while its action was found.  An
\* exception leaves the handler before it draws.
drawResult(c, pending, lit) ==
    /\ last' = c
    /\ seats' = seats
    /\ IF c.threw
       THEN /\ game' = game
            /\ marked' = marked \cup lit
            /\ timers' = pending
       ELSE /\ Fits(c.resultBoard, pending)
            /\ drawBoard(c.resultBoard, pending)

\* Listeners added whoever is to move, without the else of script.js:231
hasListenerAnyTurn(b, x, y) ==
    /\ ~terminal(b)
    /\ Cell(b, x, y) = EMPTY

\* Listeners added without the return of script.js:223
hasListenerPastEnd(b, x, y) ==
    /\ player(b) = X
    /\ Cell(b, x, y) = EMPTY

\* The cells of the board shown that carry a click listener: script.js:213,
\* 227, 231-246.
hasListener(b, x, y) ==
    /\ ~terminal(b)
    /\ player(b) = X
    /\ Cell(b, x, y) = EMPTY

\* A click on the cell (x, y) of the page: script.js:237-244.
Click(x, y) ==
    IF hasListener(game, x, y)
    THEN drawResult(CallOf("click", game, <<x, y>>), timers, {})
    ELSE UNCHANGED vars

\* A pending timer fires: script.js:228-230.
TimerFire ==
    /\ timers # <<>>
    /\ \E s \in {minimaxCall(Head(timers))} :
          drawResult(CallOf("engine", Head(timers), s.action), Tail(timers),
                     s.trail.lit)

\* The reset button: script.js:13, startGame, script.js:251-256.
Reset ==
    /\ drawBoard(initialState, timers)
    /\ UNCHANGED <<seats, last>>

\* startGame() at page load: script.js:259
Init ==
    /\ game = initialState
    /\ timers = <<>>
    /\ seats = PageSeats
    /\ last = NoCall
    /\ marked = {}

Next ==
    \/ \E x \in 0..2, y \in 0..2 : Click(x, y)
    \/ TimerFire
    \/ Reset

Spec == Init /\ [][Next]_vars

-----------------------------------------------------------------------------
(***************************************************************************)
(* One game on the page, the reset button left alone: the human clicks,    *)
(* the engine's timers fire.  A timer set with setTimeout fires in the     *)
(* end (script.js:228).                                                    *)
(***************************************************************************)
\* A click on a cell that carries a listener.
HumanMove == \E x \in 0..2, y \in 0..2 : hasListener(game, x, y) /\ Click(x, y)

NextGame ==
    \/ \E x \in 0..2, y \in 0..2 : Click(x, y)
    \/ TimerFire

SpecGame == Init /\ [][NextGame]_vars /\ WF_vars(TimerFire)

-----------------------------------------------------------------------------
(***************************************************************************)
(* The engine driven directly: a game from the empty board in which each   *)
(* seat, fixed at the start, plays either the move minimax returns or any  *)
(* legal move, each move applied with result.                              *)
(***************************************************************************)
SeatKinds == {"engine", "any"}

\* Who moves on the board b.
seatOf(b) == IF player(b) = X THEN seats[1] ELSE seats[2]

\* The board goes on as what result returned; an exception leaves it.  No
\* cell is made anew: the cells highlighted while the action was found, lit,
\* stay so.
play(c, lit) ==
    /\ last' = c
    /\ game' = IF c.threw THEN game ELSE c.resultBoard
    /\ marked' = marked \cup lit
    /\ UNCHANGED <<timers, seats>>

\* result(board, minimax(board)): script.js:229
EngineMove ==
    /\ ~terminal(game)
    /\ seatOf(game) = "engine"
    /\ \E s \in {minimaxCall(game)} :
          play(CallOf("engine", game, s.action), s.trail.lit)

\* result(board, [x, y]) for a cell that is empty: script.js:236-239
AnyMove ==
    /\ ~terminal(game)
    /\ seatOf(game) = "any"
    /\ \E k \in 1..Len(actions(game)) :
          play(CallOf("any", game, actions(game)[k]), {})

InitEngine ==
    /\ game = initialState
    /\ timers = <<>>
    /\ seats \in SeatKinds \X SeatKinds
    /\ last = NoCall
    /\ marked = {}

NextEngine == EngineMove \/ AnyMove

SpecEngine == InitEngine /\ [][NextEngine]_vars

\* The engine's seat is never left waiting: the timer of script.js:228 fires.
SpecEngineFair == SpecEngine /\ WF_vars(EngineMove)

-----------------------------------------------------------------------------
(***************************************************************************)
(* result called with any pair of coordinates, in range or not, on the     *)
(* boards such calls build up from the empty one.                          *)
(***************************************************************************)
\* How far outside 0..2 the coordinates tried reach.
CoordSlack == 1

Coords == (0 - CoordSlack)..(2 + CoordSlack)

\* result(board, [x, y]): script.js:52-70
Try(x, y) == play(CallOf("try", game, <<x, y>>), {})

NextResult == \E x \in Coords, y \in Coords : Try(x, y)

SpecResult == Init /\ [][NextResult]_vars

-----------------------------------------------------------------------------
(***************************************************************************)
(* Plain minimax, the measure of the engine: the value of a board with no  *)
(* window and no cut.  X takes the largest value among the boards its      *)
(* moves lead to, O the smallest, and a terminal board is worth its        *)
(* utility.  plainValue tabulates it over Positions, the fullest boards    *)
(* first.                                                                  *)
(***************************************************************************)
\* The grids in which X has placed as many marks as O, or one more: every board
\* a game can show is among them.
markCount(b, mark) ==
    Cardinality({k \in 1..Len(RowMajor) :
                    Cell(b, RowMajor[k][1], RowMajor[k][2]) = mark})

Positions == {b \in Boards : markCount(b, X) - markCount(b, O) \in {0, 1}}

Largest(S) == CHOOSE v \in S : \A w \in S : w <= v
Smallest(S) == CHOOSE v \in S : \A w \in S : v <= w

Level(k) == {b \in Positions : occupiedCount(b) = k}

\* The boards the moves of b lead to.
Successors(b) == {result(b, actions(b)[i]).resultBoard : i \in 1..Len(actions(b))}

plainOf(b, deeper) ==
    IF terminal(b) THEN utility(b)
    ELSE IF player(b) = X THEN Largest({deeper[c] : c \in Successors(b)})
    ELSE Smallest({deeper[c] : c \in Successors(b)})

plainFrom(k, deeper) == [b \in Level(k) |-> plainOf(b, deeper)] @@ deeper

RECURSIVE plainLevel(_)
plainLevel(k) ==
    plainFrom(k, IF k = Len(RowMajor) THEN <<>> ELSE plainLevel(k + 1))

plainValue == plainLevel(0)

\* The moves of b that lead to a board worth as much as b, in the order of
\* actions(b).
optimalMoves(b) ==
    SelectSeq(actions(b),
              LAMBDA m : plainValue[result(b, m).resultBoard] = plainValue[b])

\* m is a pair of coordinates of the board.
InRange(m) == Len(m) = 2 /\ m[1] \in 0..2 /\ m[2] \in 0..2

\* The board is full and shows no complete line.
Drawn(b) == terminal(b) /\ winner(b) = NULL /\ Len(actions(b)) = 0

-----------------------------------------------------------------------------
\* The engine's seat won nothing for the other side: a game that has ended
\* ended won by `mark` or drawn.
NeverLoses(b, mark) ==
    /\ winner(b) \in {mark, NULL}
    /\ terminal(b) => winner(b) = mark \/ Drawn(b)

\* C1: in a game from the empty board in which O plays the move minimax
\* returns, whatever legal moves X plays, no board is won by X: a game that
\* ends, ends won by O or drawn.
OEngineNeverLoses == seats[2] = "engine" => NeverLoses(game, O)

\* The engine's move has just won the game for O against an X free to move.
OEngineHasWon ==
    /\ seats = <<"any", "engine">>
    /\ last.by = "engine"
    /\ terminal(game)
    /\ winner(game) = O

\* C2: in a game from the empty board in which X plays the move minimax
\* returns, whatever legal moves O plays, no board is won by O.
XEngineNeverLoses == seats[1] = "engine" => NeverLoses(game, X)

\* The engine's move has just won the game for X against an O free to move.
XEngineHasWon ==
    /\ seats = <<"engine", "any">>
    /\ last.by = "engine"
    /\ terminal(game)
    /\ winner(game) = X

\* Both seats play the move minimax returns.
SelfPlay == seats = <<"engine", "engine">>

\* C3: when both seats play the move minimax returns, the game reaches a
\* terminal board, and a terminal board it reaches is a draw: full, with no
\* complete line.
SelfPlayEndsDrawn ==
    /\ SelfPlay ~> Drawn(game)
    /\ [](SelfPlay /\ terminal(game) => Drawn(game))

\* Self-play has filled the board without a winner.
SelfPlayDrawReached == SelfPlay /\ last.by = "engine" /\ Drawn(game)

\* What the search handed back for the board b agrees with plain minimax.
RootAgrees(b, e) ==
    /\ ~e.threw
    /\ e.val = plainValue[b]
    /\ InRange(e.action)
    /\ plainValue[result(b, e.action).resultBoard] = plainValue[b]

\* C4: on every board of a game that is not terminal, the value the search
\* finds from the full window is the plain minimax value of the board, and
\* the board the returned move leads to has that value too.
PruningKeepsRootValue == ~terminal(game) => RootAgrees(game, minimaxCall(game))

\* The engine has moved on a board with one mark, where the search cuts, and
\* kept the value of the board.
PrunedSearchKeptValue ==
    /\ last.by = "engine"
    /\ occupiedCount(last.board) = 1
    /\ plainValue[last.resultBoard] = plainValue[last.board]

\* C5: on every board of a game that is not terminal, minimax returns the
\* first, in row-major order, of the moves that lead to a board of the plain
\* minimax value of the board.
FirstOptimalMoveReturned ==
    ~terminal(game) =>
        /\ optimalMoves(game) # <<>>
        /\ minimax(game) = optimalMoves(game)[1]

\* The engine has moved where several moves were optimal and the first of
\* them in row-major order was not the first action of the board.
LaterOptimalMoveTaken ==
    /\ last.by = "engine"
    /\ Len(optimalMoves(last.board)) > 1
    /\ last.action = optimalMoves(last.board)[1]
    /\ last.action # actions(last.board)[1]

\* m is a pair of coordinates in 0..2 of an empty cell of b, and result
\* accepts it.
Accepted(b, m) ==
    /\ InRange(m)
    /\ Cell(b, m[1], m[2]) = EMPTY
    /\ ~result(b, m).threw

\* m is null exactly when b is terminal, and is accepted when b is not.
Decides(b, m) ==
    /\ terminal(b) <=> m = NoAction
    /\ ~terminal(b) => Accepted(b, m)

\* C6: minimax returns null exactly on the terminal boards; on a board that
\* is not terminal it returns a pair of coordinates in 0..2 of an empty cell,
\* and result accepts it.
MoveExactlyWhenNotTerminal == Decides(game, minimax(game))

\* result has accepted the engine's move, which ended the game: minimax has
\* no move for the board.
EngineMoveAcceptedThenNone ==
    /\ last.by = "engine"
    /\ ~last.threw
    /\ terminal(game)
    /\ minimax(game) = NoAction

\* C7: on the empty board minimax returns (0, 0).
EmptyBoardMove == game = initialState => minimax(game) = <<0, 0>>

\* The engine has opened the game at (0, 0).
EngineOpenedAtCorner ==
    /\ last.by = "engine"
    /\ last.board = initialState
    /\ last.action = <<0, 0>>
    /\ Cell(game, 0, 0) = X

\* The board X X _ / O O _ / _ _ _
TopRowOpen ==
    << <<X, X, EMPTY>>,
       <<O, O, EMPTY>>,
       <<EMPTY, EMPTY, EMPTY>> >>

\* On b, which has four marks and X to move, m is (0, 2) and completes a
\* line of X.
CompletesTopRow(b, m) ==
    /\ occupiedCount(b) = 4
    /\ player(b) = X
    /\ m = <<0, 2>>
    /\ winner(result(b, m).resultBoard) = X

\* C8: on the board X X _ / O O _ / _ _ _, which has four marks and X to
\* move, minimax returns (0, 2), and that move completes the top row.
TopRowCompleted == game = TopRowOpen => CompletesTopRow(game, minimax(game))

\* The game stands at that board and the move minimax has for it is (0, 2).
TopRowOpenReached ==
    /\ game = TopRowOpen
    /\ last.by = "any"
    /\ minimax(game) = <<0, 2>>

\* The action m has a coordinate outside 0..2 or names a cell of b that is not
\* empty.
Bad(b, m) == ~InRange(m) \/ Cell(b, m[1], m[2]) # EMPTY

\* C9: result throws for every action with a coordinate outside 0..2 and for
\* every action on a cell that is not empty; a call that throws leaves its
\* board as it was; and the action of a call that returned throws on the
\* board returned.
BadMovesRejected ==
    last.by = "try" =>
        /\ Bad(last.board, last.action) => last.threw
        /\ last.threw => last.after = last.board /\ game = last.board
        /\ ~last.threw => result(last.resultBoard, last.action).threw

\* A move has been made and then tried again, and the second call threw.
RepeatedMoveRejected ==
    /\ last.by = "try"
    /\ last.threw
    /\ InRange(last.action)
    /\ Cell(last.board, last.action[1], last.action[2]) # EMPTY
    /\ game = last.board

\* The board the call c returned holds player(board) at the action and the
\* marks of the board given everywhere else, and the board given is as it
\* was.
Placed(c) ==
    /\ Cell(c.resultBoard, c.action[1], c.action[2]) = player(c.board)
    /\ \A k \in 1..Len(RowMajor) :
          RowMajor[k] # c.action =>
              Cell(c.resultBoard, RowMajor[k][1], RowMajor[k][2])
                  = Cell(c.board, RowMajor[k][1], RowMajor[k][2])
    /\ c.after = c.board

\* C10: a call of result that returns gives a board whose cell at the action
\* holds player(board) and whose other eight cells are those of the board it
\* was given, and leaves the board it was given as it was; so does every call
\* of result the search makes.
MoveChangesOneCell ==
    /\ last.by # "none" /\ ~last.threw => Placed(last)
    /\ minimaxCall(game).board = game

\* The engine's move has been applied to a board that already had marks.
EngineMovePlaced ==
    /\ last.by = "engine"
    /\ ~last.threw
    /\ occupiedCount(last.board) > 1
    /\ game = last.resultBoard
    /\ occupiedCount(game) = occupiedCount(last.board) + 1

\* The other of the two players' marks.
Opposite(mark) == IF mark = X THEN O ELSE X

\* X has placed as many marks on b as O, or one more, and the player to move
\* on b is X in the first case and O in the second.
Balanced(b) ==
    /\ markCount(b, X) - markCount(b, O) \in {0, 1}
    /\ player(b) = IF markCount(b, X) = markCount(b, O) THEN X ELSE O

\* C11: on every board built from the empty board by calls of result that
\* returned, X has as many marks as O or one more; player is X on the empty
\* board; and the player of the board a call of result returned is the
\* opposite mark of the player of the board the call was given.
TurnsAlternate ==
    /\ Balanced(game)
    /\ game = initialState => player(game) = X
    /\ last.by = "try" /\ ~last.threw =>
           /\ player(last.board) \in {X, O}
           /\ player(last.resultBoard) = Opposite(player(last.board))

\* A fourth move, O's, has been applied: the turn has gone X, O, X, O and is
\* X's again.
FourthMoveApplied ==
    /\ last.by = "try"
    /\ ~last.threw
    /\ game = last.resultBoard
    /\ occupiedCount(game) = 4
    /\ player(last.board) = O
    /\ player(game) = X

\* The place of the cell m in row-major order.
Rank(m) == 3 * m[1] + m[2]

\* The sequence a lists exactly the empty cells of b, each once, in row-major
\* order.
ListsEmptyCells(b, a) ==
    /\ \A k \in 1..Len(a) : InRange(a[k]) /\ Cell(b, a[k][1], a[k][2]) = EMPTY
    /\ \A i \in 0..2, j \in 0..2 :
          Cell(b, i, j) = EMPTY => \E k \in 1..Len(a) : a[k] = <<i, j>>
    /\ \A j, k \in 1..Len(a) : j < k => Rank(a[j]) < Rank(a[k])

\* C12: on every board built from the empty board, actions returns exactly
\* the coordinates of the empty cells, each once, in row-major order; the
\* number of actions and the number of occupied cells add up to 9; and on a
\* full board the sequence is empty.
LegalMovesAreEmptyCells ==
    /\ ListsEmptyCells(game, actions(game))
    /\ Len(actions(game)) + markCount(game, X) + markCount(game, O) = 9
    /\ markCount(game, EMPTY) = 0 => actions(game) = <<>>

\* The ninth move has filled the board, and no action is left.
BoardFilled ==
    /\ last.by = "try"
    /\ ~last.threw
    /\ actions(last.board) = <<last.action>>
    /\ markCount(game, EMPTY) = 0
    /\ actions(game) = <<>>

\* The eight lines of the grid, each the set of its three cells: the rows,
\* the columns and the two diagonals.
Lines ==
    {{<<i, j>> : j \in 0..2} : i \in 0..2}
        \cup {{<<i, j>> : i \in 0..2} : j \in 0..2}
        \cup {{<<d, d>> : d \in 0..2}, {<<d, 2 - d>> : d \in 0..2}}

\* The mark holds a complete line of b.
HoldsLine(b, mark) == \E L \in Lines : \A c \in L : Cell(b, c[1], c[2]) = mark

\* No cell of b is empty.
Full(b) == \A i \in 0..2, j \in 0..2 : Cell(b, i, j) # EMPTY

\* The value v is that of the terminal board b: 1 exactly when X holds a
\* line, -1 exactly when O does, 0 exactly when b is full with no line held.
ValuedByLines(b, v) ==
    /\ v = 1 <=> HoldsLine(b, X)
    /\ v = -1 <=> HoldsLine(b, O)
    /\ v = 0 <=> Full(b) /\ ~HoldsLine(b, X) /\ ~HoldsLine(b, O)

\* C13: on every board of a game, terminal is true exactly when X or O holds
\* one of the eight lines or no cell is empty; and on a terminal board the
\* value utility gives, which is the value maxValue and minValue return for
\* it, is 1 exactly when X holds a line, -1 exactly when O holds a line, and
\* 0 exactly when the board is full with no line held.
TerminalAndValueByLines ==
    /\ terminal(game) <=> HoldsLine(game, X) \/ HoldsLine(game, O) \/ Full(game)
    /\ terminal(game) =>
           /\ ValuedByLines(game, utility(game))
           /\ \A role \in {"min", "max"} :
                 call[role, game, NegInfinity, Infinity].val = utility(game)

\* The ninth move has filled the board and completed a line of X: the board
\* is full, and its value is 1, not 0.
FullBoardWonByX ==
    /\ last.by \in {"any", "engine"}
    /\ ~last.threw
    /\ game = last.resultBoard
    /\ ~HoldsLine(last.board, X)
    /\ Full(game)
    /\ HoldsLine(game, X)
    /\ utility(game) = 1

\* The k-th triple in the order rows 0-2, columns 0-2, main diagonal,
\* anti-diagonal, as the set of its cells.
LineAt(k) ==
    IF k <= 3 THEN {<<k - 1, j>> : j \in 0..2}
    ELSE IF k <= 6 THEN {<<i, k - 4>> : i \in 0..2}
    ELSE IF k = 7 THEN {<<d, d>> : d \in 0..2}
    ELSE {<<d, 2 - d>> : d \in 0..2}

\* The three cells of the k-th triple of b are not empty and identical.
Complete(b, k) ==
    \E mark \in {X, O} : \A c \in LineAt(k) : Cell(b, c[1], c[2]) = mark

\* k is the first triple of b that is complete, or 0 when none is.
FirstComplete(b, k) ==
    /\ k \in 0..8
    /\ k # 0 => Complete(b, k)
    /\ \A j \in 1..8 : Complete(b, j) => k # 0 /\ k <= j

\* winner finds the triple k in b: it returns the mark in it and highlights
\* its cells and no others; it returns null and highlights nothing when k is 0.
Reports(b, k) ==
    /\ FirstComplete(b, k)
    /\ k = 0 => winner(b) = NULL /\ highlights(b) = {}
    /\ k # 0 =>
           /\ winner(b) \in {X, O}
           /\ \A c \in LineAt(k) : Cell(b, c[1], c[2]) = winner(b)
           /\ highlights(b) = LineAt(k)

\* C14: winner scans the 8 triples in the order rows 0-2, columns 0-2, main
\* diagonal, anti-diagonal; it returns the mark of the first triple whose
\* cells are not empty and identical and highlights that triple alone, also
\* when a later triple is complete too; it returns null and highlights
\* nothing when no triple is complete.
FirstLineReported == Reports(game, firstCondition(game))

\* A move has completed two triples at once, and the earlier of them alone
\* is highlighted.
TwoLinesOneReported ==
    /\ last.by \in {"any", "engine"}
    /\ game = last.resultBoard
    /\ \E j, k \in 1..8 :
          /\ j < k
          /\ Complete(game, j)
          /\ Complete(game, k)
          /\ firstCondition(game) = j
          /\ highlights(game) = LineAt(j)
          /\ highlights(game) # LineAt(k)

\* No move of the page was applied to a terminal board, and none is pending
\* for one.
MovesOnOpenBoards ==
    /\ last.by \in {"click", "engine"} => ~terminal(last.board)
    /\ \A i \in 1..Len(timers) : ~terminal(timers[i])

\* From a terminal board with no timer pending, the board shown stays, or
\* the reset button starts a new game.
OverStaysOver ==
    terminal(game) /\ timers = <<>> => game' \in {game, initialState}

\* C15: no move is applied to a terminal board: every call of result a click
\* or the engine's timer makes is on a board that is not terminal, no timer
\* is pending for a terminal board, and once the board shown is terminal and
\* no timer is pending, no click and no engine move changes it.
NoMoveAfterEnd == []MovesOnOpenBoards /\ [][OverStaysOver]_vars

\* The engine has won for O on a board that still has empty cells and, by
\* the count of marks, X to move: no cell carries a listener.
WonWithCellsLeft ==
    /\ last.by = "engine"
    /\ game = last.resultBoard
    /\ winner(game) = O
    /\ player(game) = X
    /\ actions(game) # <<>>
    /\ timers = <<>>
    /\ \A x \in 0..2, y \in 0..2 : ~hasListener(game, x, y)

\* C16: a call of minimax has no effect outside the call: the cells of the
\* page that are highlighted are the same after it as before it.  In a game
\* driven directly nothing else touches the page, so no step changes them.
SearchLeavesPageAsItWas == [][marked' = marked]_vars

\* The three utilities.
Utilities == {-1, 0, 1}

\* Every [value, action] pair the calls of the search s returned is a utility
\* with null or a move, and the pair s itself returned for the board b, when b
\* is not terminal, holds a move.
AllUtilities(b, s) ==
    /\ \A p \in s.trail.returns : p[1] \in Utilities /\ p[2] # "undefined"
    /\ ~terminal(b) => kindOf(s.action) = "move"

\* C17: every value a maxValue or minValue call returns during the search
\* minimax makes from a board of a game is -1, 0 or 1, never the Infinity or
\* -Infinity the running best value starts from; no call returns an
\* undefined action; and the call on a board that is not terminal returns a
\* move.
SearchReturnsUtilities == AllUtilities(game, minimaxCall(game))

\* The engine has moved after a search whose calls returned each of -1, 0
\* and 1, from terminal boards (null) and from others (a move).
SearchReturnedEachUtility ==
    /\ last.by = "engine"
    /\ ~last.threw
    /\ minimaxCall(last.board).trail.returns = Utilities \X {"null", "move"}

\* A step keeps the board shown, or starts a new game from the empty board,
\* or applies one move to the board shown.
OneGameStep ==
    \/ game' = game
    \/ game' = initialState
    \/ game' \in Successors(game)

\* C18: there is a single board of the game across reset, clicks and the
\* engine's timer: every board shown after a reset comes from the new game's
\* empty board by the moves made since, so each step shows the board it
\* found, the empty board, or the board it found with one move applied; a
\* timer set before the reset never shows a board of the game before.
SingleGameBoard == [][OneGameStep]_vars

\* The board c is b with nothing changed, for a click on the cell (x, y) that
\* finds b terminal, or O to move, or the cell occupied.
Ignored(b, x, y, c) ==
    terminal(b) \/ player(b) = O \/ Cell(b, x, y) # EMPTY => c = b

\* Every click that changed the board was on an empty cell of a board that
\* was not terminal and had X to move.
ClicksWereLegal ==
    last.by = "click" =>
        /\ ~terminal(last.board)
        /\ player(last.board) = X
        /\ Cell(last.board, last.action[1], last.action[2]) = EMPTY
        /\ ~last.threw

\* C19: a click changes the board shown only when that board is not
\* terminal, X is to move and the cell clicked is empty; a click while O is
\* to move, a click once the game is over and a click on an occupied cell
\* leave the board as it is.
ClickOnlyOnOpenCell ==
    /\ []ClicksWereLegal
    /\ [][\A x \in 0..2, y \in 0..2 :
             Click(x, y) => Ignored(game, x, y, game')]_vars

\* A click has been applied and the engine's move is pending: O is to move
\* and no cell carries a listener, the empty ones included.
ClickAppliedEnginePending ==
    /\ last.by = "click"
    /\ game = last.resultBoard
    /\ player(game) = O
    /\ timers = <<game>>
    /\ actions(game) # <<>>
    /\ \A x \in 0..2, y \in 0..2 : ~hasListener(game, x, y)

\* The search s, made from the board b, has returned, and its calls nest no
\* deeper than the cells b has left to fill, the call on b counted.
NestsWithin(b, s) ==
    /\ ~s.threw
    /\ s.trail.deep >= 1
    /\ s.trail.deep <= Len(actions(b)) + 1

\* The search of every pending engine move returns, its calls nested no
\* deeper than the empty cells of its board allow, and every action of the
\* board leads to a board with one more occupied cell.
SearchDescends ==
    \A i \in 1..Len(timers) :
        /\ NestsWithin(timers[i], minimaxCall(timers[i]))
        /\ \A c \in Successors(timers[i]) :
              occupiedCount(c) = occupiedCount(timers[i]) + 1

\* A step that changes the board shown adds one mark to it.
OneMoreMark == game' # game => occupiedCount(game') = occupiedCount(game) + 1

\* C20: the search and the game both end.  Every maxValue or minValue call
\* recurses on boards with one more occupied cell, so the calls of a search
\* nest no deeper than the empty cells left and minimax returns; and with no
\* reset, if the human clicks an empty cell whenever X is to move, and each
\* pending timer fires, the game reaches a terminal board, each move
\* applied adding one mark to the nine cells, so after at most 9 moves.
SearchAndGameEnd ==
    /\ []SearchDescends
    /\ [][OneMoreMark]_vars
    /\ WF_vars(HumanMove) => <>terminal(game)

\* The ninth move, a click, has ended a game in which the engine moved four
\* times.
GameEndedAtNinthMove ==
    /\ last.by = "click"
    /\ game = last.resultBoard
    /\ occupiedCount(game) = 9
    /\ terminal(game)
    /\ timers = <<>>
====
